---- MODULE Spec2Model ----
(***************************************************************************)
(* NodeModal (src/features/modals/NodeModal/index.tsx): the modal that     *)
(* shows the selected graph node and lets the user edit it in place.  The  *)
(* file holds two builds of the component: the per-field build (lines      *)
(* 1-247: one input per scalar row, or one input for a lone keyless row)   *)
(* and the free-text build (lines 249-444: one text area).                 *)
(*                                                                         *)
(* Text is modelled at the granularity of lexemes: a text is a sequence of *)
(* tokens, a JS string is the token sequence of its characters, JSON.parse *)
(* is a recursive-descent parser over tokens and JSON.stringify emits      *)
(* tokens (white space and indentation are not represented).               *)
(***************************************************************************)
EXTENDS Integers, Sequences, FiniteSets, TLC

(***************************************************************************)
(* Tokens.                                                                 *)
(***************************************************************************)
LB == <<"{">>
RB == <<"}">>
LS == <<"[">>
RS == <<"]">>
COLON == <<":">>
COMMA == <<",">>
TNum(k) == <<"n", k>>
TWord(w) == <<"w", w>>
TQuoted(content) == <<"q", content>>
TTrue == <<"true">>
TFalse == <<"false">>
TNull == <<"null">>

\* The characters of the identifier-like string w, e.g. the key a.
K(w) == << TWord(w) >>

(***************************************************************************)
(* JSON values as JavaScript holds them after JSON.parse.                  *)
(***************************************************************************)
Num(k) == <<"num", k>>
Str(content) == <<"str", content>>
Bool(b) == <<"bool", b>>
Null == <<"null">>
Undefined == <<"undefined">>
Obj(f) == <<"obj", f>>
Arr(s) == <<"arr", s>>
\* The outcome of an expression that throws.
Thrown == <<"throw">>

Tag(v) == v[1]
IsNullish(v) == Tag(v) \in {"null", "undefined"}
IsContainer(v) == Tag(v) \in {"obj", "arr"}

EmptyFn == <<>>

\* f with key k bound to v (f[k] = v on a plain object).
Put(f, k, v) == [x \in (DOMAIN f) \cup {k} |-> IF x = k THEN v ELSE f[x]]

\* typeof v === "object" && v !== null
IsObjectType(v) == Tag(v) \in {"obj", "arr"}

\* JavaScript truthiness of a value.
Truthy(v) ==
    CASE Tag(v) = "num" -> v[2] # 0
      [] Tag(v) = "str" -> v[2] # <<>>
      [] Tag(v) = "bool" -> v[2]
      [] Tag(v) \in {"null", "undefined"} -> FALSE
      [] OTHER -> TRUE

\* The type tag the graph gives a row.
TypeOf(v) ==
    CASE Tag(v) = "num" -> "number"
      [] Tag(v) = "str" -> "string"
      [] Tag(v) = "bool" -> "boolean"
      [] Tag(v) = "obj" -> "object"
      [] Tag(v) = "arr" -> "array"
      [] OTHER -> "null"

(***************************************************************************)
(* JSON.stringify.  Members are emitted in TLC's fixed enumeration order   *)
(* of the key set (the model does not track insertion order).              *)
(***************************************************************************)
RECURSIVE Stringify(_), StringifyMembers(_, _), StringifyElems(_, _)
Stringify(v) ==
    CASE Tag(v) = "num" -> << TNum(v[2]) >>
      [] Tag(v) = "str" -> << TQuoted(v[2]) >>
      [] Tag(v) = "bool" -> IF v[2] THEN << TTrue >> ELSE << TFalse >>
      [] Tag(v) = "obj" -> <<LB>> \o StringifyMembers(v[2], DOMAIN v[2]) \o <<RB>>
      [] Tag(v) = "arr" -> <<LS>> \o StringifyElems(v[2], 1) \o <<RS>>
      [] OTHER -> << TNull >>

StringifyMembers(f, keys) ==
    IF keys = {} THEN <<>>
    ELSE LET k == CHOOSE x \in keys : TRUE
             rest == keys \ {k}
         IN  << TQuoted(k), COLON >> \o Stringify(f[k])
               \o (IF rest = {} THEN <<>> ELSE <<COMMA>> \o StringifyMembers(f, rest))

StringifyElems(s, i) ==
    IF i > Len(s) THEN <<>>
    ELSE Stringify(s[i])
           \o (IF i = Len(s) THEN <<>> ELSE <<COMMA>> \o StringifyElems(s, i + 1))

(***************************************************************************)
(* JSON.parse: recursive descent over the tokens.  A parse step returns    *)
(* [ok, v, n]: whether a value starts at position i, the value, and the    *)
(* position after it.                                                      *)
(***************************************************************************)
ParseFail == [ok |-> FALSE, v |-> Null, n |-> 0]

RECURSIVE ParseValue(_, _), ParseElems(_, _, _), ParseMembers(_, _, _)
ParseValue(t, i) ==
    IF i > Len(t) THEN ParseFail
    ELSE LET tok == t[i] IN
         CASE tok[1] = "n" -> [ok |-> TRUE, v |-> Num(tok[2]), n |-> i + 1]
           [] tok[1] = "q" -> [ok |-> TRUE, v |-> Str(tok[2]), n |-> i + 1]
           [] tok = TTrue -> [ok |-> TRUE, v |-> Bool(TRUE), n |-> i + 1]
           [] tok = TFalse -> [ok |-> TRUE, v |-> Bool(FALSE), n |-> i + 1]
           [] tok = TNull -> [ok |-> TRUE, v |-> Null, n |-> i + 1]
           [] tok = LS ->
                IF i + 1 <= Len(t) /\ t[i + 1] = RS
                THEN [ok |-> TRUE, v |-> Arr(<<>>), n |-> i + 2]
                ELSE ParseElems(t, i + 1, <<>>)
           [] tok = LB ->
                IF i + 1 <= Len(t) /\ t[i + 1] = RB
                THEN [ok |-> TRUE, v |-> Obj(EmptyFn), n |-> i + 2]
                ELSE ParseMembers(t, i + 1, EmptyFn)
           [] OTHER -> ParseFail

\* The elements of an array from position i on, acc being those already read.
ParseElems(t, i, acc) ==
    LET r == ParseValue(t, i) IN
    IF ~r.ok \/ r.n > Len(t) THEN ParseFail
    ELSE IF t[r.n] = RS THEN [ok |-> TRUE, v |-> Arr(Append(acc, r.v)), n |-> r.n + 1]
    ELSE IF t[r.n] = COMMA THEN ParseElems(t, r.n + 1, Append(acc, r.v))
    ELSE ParseFail

\* The members of an object from position i on; a repeated key keeps the last value.
ParseMembers(t, i, acc) ==
    IF i + 1 > Len(t) \/ t[i][1] # "q" \/ t[i + 1] # COLON THEN ParseFail
    ELSE LET r == ParseValue(t, i + 2) IN
         IF ~r.ok \/ r.n > Len(t) THEN ParseFail
         ELSE IF t[r.n] = RB
              THEN [ok |-> TRUE, v |-> Obj(Put(acc, t[i][2], r.v)), n |-> r.n + 1]
         ELSE IF t[r.n] = COMMA THEN ParseMembers(t, r.n + 1, Put(acc, t[i][2], r.v))
         ELSE ParseFail

\* JSON.parse(text): the value, or Thrown for a SyntaxError.
JsonParse(text) ==
    LET r == ParseValue(text, 1) IN
    IF r.ok /\ r.n = Len(text) + 1 THEN r.v ELSE Thrown

(***************************************************************************)
(* Paths.  A segment is a string key or an array index (0-based, as in JS). *)
(***************************************************************************)
SegK(content) == <<"k", content>>
SegI(i) == <<"i", i>>

\* The property name a segment addresses on a plain object (ToString of a number).
PropKey(seg) == IF seg[1] = "k" THEN seg[2] ELSE << TNum(seg[2]) >>

\* cur[seg] read on a non-nullish cur.  On an array a string segment names no
\* element; on a string a number indexes its lexemes; other primitives have no
\* own properties.
GetProp(cur, seg) ==
    CASE Tag(cur) = "obj" ->
            IF PropKey(seg) \in DOMAIN cur[2] THEN cur[2][PropKey(seg)] ELSE Undefined
      [] Tag(cur) = "arr" ->
            IF seg[1] = "i" /\ seg[2] >= 0 /\ seg[2] < Len(cur[2])
            THEN cur[2][seg[2] + 1] ELSE Undefined
      [] Tag(cur) = "str" ->
            IF seg[1] = "i" /\ seg[2] >= 0 /\ seg[2] < Len(cur[2])
            THEN Str(<< cur[2][seg[2] + 1] >>) ELSE Undefined
      [] OTHER -> Undefined

\* cur[seg] = v, as JSON.stringify will later see cur.  Writing past the end of
\* an array leaves holes (serialised as null); a string-named property of an
\* array is not serialised; assigning to a property of a primitive throws (the
\* module is strict-mode code).
SetProp(cur, seg, v) ==
    CASE Tag(cur) = "obj" -> Obj(Put(cur[2], PropKey(seg), v))
      [] Tag(cur) = "arr" ->
            IF seg[1] = "i" /\ seg[2] >= 0
            THEN LET s == cur[2]
                     n == IF seg[2] + 1 > Len(s) THEN seg[2] + 1 ELSE Len(s)
                 IN  Arr([j \in 1..n |-> IF j = seg[2] + 1 THEN v
                                          ELSE IF j <= Len(s) THEN s[j] ELSE Null])
            ELSE cur
      [] OTHER -> Thrown

\* { ...obj }: the own enumerable properties of obj.
SpreadObject(obj) ==
    CASE Tag(obj) = "obj" -> obj
      [] Tag(obj) = "str" ->
            Obj([k \in {<< TNum(j - 1) >> : j \in 1..Len(obj[2])} |->
                    Str(<< obj[2][k[1][2] + 1] >>)])
      [] OTHER -> Obj(EmptyFn)

\* The loop and the final assignment of setAtPath, from cur on.
RECURSIVE SetIn(_, _, _)
SetIn(cur, path, value) ==
    IF Len(path) = 1 THEN SetProp(cur, path[1], value)
    ELSE IF ~IsContainer(cur) THEN Thrown
    ELSE LET seg == path[1]
             nextSeg == path[2]
             old == GetProp(cur, seg)
             child == IF IsNullish(old)
                      THEN (IF nextSeg[1] = "i" THEN Arr(<<>>) ELSE Obj(EmptyFn))
                      ELSE old
             sub == SetIn(child, Tail(path), value)
         IN  IF sub = Thrown THEN Thrown ELSE SetProp(cur, seg, sub)

\* Mutant: out starts empty instead of as a copy of obj.
setAtPathFresh(obj, path, value) ==
    IF path = <<>> THEN value
    ELSE SetIn(IF Tag(obj) = "arr" THEN Arr(<<>>) ELSE Obj(EmptyFn), path, value)

setAtPath(obj, path, value) ==
    IF path = <<>> THEN value
    ELSE SetIn(IF Tag(obj) = "arr" THEN obj ELSE SpreadObject(obj), path, value)

RECURSIVE getAtPath(_, _)
getAtPath(obj, path) ==
    IF path = <<>> THEN obj
    ELSE IF IsNullish(obj) THEN Undefined
    ELSE getAtPath(GetProp(obj, path[1]), Tail(path))

(***************************************************************************)
(* The carry-over of "details" and "nutrients" in handleSave.              *)
(***************************************************************************)
Details == K("details")
Nutrients == K("nutrients")

\* if (existingValue.k && newValue.k === undefined) newValue.k = existingValue.k
PreserveKey(existingValue, newValue, k) ==
    IF Truthy(GetProp(existingValue, SegK(k))) /\ GetProp(newValue, SegK(k)) = Undefined
    THEN SetProp(newValue, SegK(k), GetProp(existingValue, SegK(k)))
    ELSE newValue

MergePreserved(existingValue, newValue) ==
    IF Truthy(existingValue) /\ IsObjectType(existingValue) /\ IsObjectType(newValue)
    THEN PreserveKey(existingValue, PreserveKey(existingValue, newValue, Details), Nutrients)
    ELSE newValue

(***************************************************************************)
(* String conversions of the component.                                    *)
(***************************************************************************)
\* String(v) and `${v}` of a scalar.
JsString(v) ==
    CASE Tag(v) = "num" -> << TNum(v[2]) >>
      [] Tag(v) = "str" -> v[2]
      [] Tag(v) = "bool" -> IF v[2] THEN << TTrue >> ELSE << TFalse >>
      [] Tag(v) = "null" -> << TNull >>
      [] Tag(v) = "undefined" -> K("undefined")
      [] Tag(v) = "obj" -> K("[object Object]")
      [] OTHER -> K("[array]")

\* String(v ?? "")
SeedText(v) == IF IsNullish(v) THEN <<>> ELSE JsString(v)

\* Mutant: the fallback stores the text re-quoted (JSON.stringify(text)).
ParseOrStringQuoted(text) ==
    IF JsonParse(text) = Thrown THEN Str(<< TQuoted(text) >>) ELSE JsonParse(text)

\* try { JSON.parse(text) } catch { text }
ParseOrString(text) ==
    IF JsonParse(text) = Thrown THEN Str(text) ELSE JsonParse(text)

\* A row is editable when it is keyed and neither an array nor an object.
IsScalarRow(row) == row.type # "array" /\ row.type # "object" /\ row.key # <<>>

\* The object of the keyed scalar rows.
RowsObject(rows) ==
    LET idx == {i \in 1..Len(rows) : IsScalarRow(rows[i])}
        keys == {rows[i].key : i \in idx}
    IN  [k \in keys |-> rows[CHOOSE i \in idx :
                                /\ rows[i].key = k
                                /\ \A j \in idx : rows[j].key = k => j <= i].value]

normalizeNodeData(nodeRows) ==
    IF Len(nodeRows) = 0 THEN <<LB, RB>>
    ELSE IF Len(nodeRows) = 1 /\ nodeRows[1].key = <<>> THEN JsString(nodeRows[1].value)
    ELSE Stringify(Obj(RowsObject(nodeRows)))

(***************************************************************************)
(* The graph store (useGraph): one node per object (a row per key; rows of *)
(* array or object type stand for children), one node per scalar that is   *)
(* an array element or the root (a single keyless row).  gen tells the     *)
(* node objects of one graph build from those of another.                  *)
(***************************************************************************)
Row(key, value) ==
    [key |-> key,
     value |-> IF IsContainer(value) THEN Str(K(TypeOf(value))) ELSE value,
     type |-> TypeOf(value)]

RECURSIVE ObjectRows(_, _)
ObjectRows(f, keys) ==
    IF keys = {} THEN <<>>
    ELSE LET k == CHOOSE x \in keys : TRUE
         IN  << Row(k, f[k]) >> \o ObjectRows(f, keys \ {k})

RECURSIVE Traverse(_, _, _), TraverseMembers(_, _, _, _), TraverseElems(_, _, _, _)
Traverse(v, path, gen) ==
    CASE Tag(v) = "obj" ->
            << [path |-> path, text |-> ObjectRows(v[2], DOMAIN v[2]), gen |-> gen] >>
              \o TraverseMembers(v[2], DOMAIN v[2], path, gen)
      [] Tag(v) = "arr" -> TraverseElems(v[2], 1, path, gen)
      [] OTHER -> << [path |-> path, text |-> << Row(<<>>, v) >>, gen |-> gen] >>

TraverseMembers(f, keys, path, gen) ==
    IF keys = {} THEN <<>>
    ELSE LET k == CHOOSE x \in keys : TRUE
         IN  (IF IsContainer(f[k]) THEN Traverse(f[k], Append(path, SegK(k)), gen) ELSE <<>>)
               \o TraverseMembers(f, keys \ {k}, path, gen)

TraverseElems(s, i, path, gen) ==
    IF i > Len(s) THEN <<>>
    ELSE Traverse(s[i], Append(path, SegI(i - 1)), gen) \o TraverseElems(s, i + 1, path, gen)

\* The nodes the graph store holds after setGraph(text).
BuildNodes(text, gen) == Traverse(JsonParse(text), <<>>, gen)

\* No selected node (selectedNode is null).
NoNode == [path |-> <<>>, text |-> <<>>, gen |-> -1]

\* findPath(p) = JSON.stringify(p)
SegValue(seg) == IF seg[1] = "k" THEN Str(seg[2]) ELSE Num(seg[2])
findPath(p) == Stringify(Arr([i \in 1..Len(p) |-> SegValue(p[i])]))

\* Mutant: the first node is taken whatever its path.
FindTargetFirst(ns, path) == IF Len(ns) = 0 THEN NoNode ELSE ns[1]

\* nodes.find(n => findPath(n.path) === findPath(path)), NoNode when there is none.
FindTarget(ns, path) ==
    LET hits == {i \in 1..Len(ns) : findPath(ns[i].path) = findPath(path)}
    IN  IF hits = {} THEN NoNode
        ELSE ns[CHOOSE i \in hits : \A j \in hits : i <= j]

(***************************************************************************)
(* Bounds and the inputs of the model.                                     *)
(***************************************************************************)
\* Saves started in one run of Spec.
MaxSaves == 1

\* Saves started in one run of SpecRace.
MaxRaceSaves == 2

Fn1(k1, v1) == Put(EmptyFn, k1, v1)
Fn2(k1, v1, k2, v2) == Put(Fn1(k1, v1), k2, v2)

\* Documents the graph is built from.
Docs ==
    { Obj(Fn2(K("a"), Str(<< TNum(1) >>), Details, Obj(Fn1(Nutrients, Num(0))))),
      Obj(Fn2(K("a"), Arr(<< Num(1), Str(K("x")) >>), K("b"), Null)),
      Arr(<< Obj(Fn1(K("a"), Bool(TRUE))), Null >>) }

\* Texts the file-content store may hold, while the graph still shows the last
\* document that parsed, because the user left the editor with broken JSON.
BrokenTexts == { << LB >> }

\* What the user may type into the text area of the free-text build.
Typed == { Stringify(Arr(<< Num(2) >>)), K("x"), Stringify(Obj(Fn1(K("a"), Num(2)))) }

\* What the user may type into an input of the per-field build.
TypedField == { << TNum(2) >>, K("x") }

\* editedSingleValue = null
NoText == << <<"null-state">> >>

VARIABLES
    variant,            \* which build of the component runs: "fields" or "text"
    contents,           \* useFile: the text buffer
    hasChanges,         \* useFile: the dirty flag
    json,               \* useJson: the text last given to setJson
    nodes,              \* useGraph: the nodes of the graph
    graphGen,           \* useGraph: how many times the graph was rebuilt
    selectedNode,       \* useGraph: the selected node, NoNode for null
    editing,            \* React state of the component
    editedText,
    editedFields,
    editedSingleValue,
    pending,            \* the handleSave calls awaiting setContents, oldest first
    started,            \* how many handleSave calls reached setContents
    lastCall,           \* the latest of them: its path and value, whether the store took
                        \* it, whether the path fitted the document it patched, and
                        \* whether an earlier save was still pending
    inOrder,            \* whether every await so far settled oldest first
    pushed,             \* whether setJson was ever called
    last                \* the handler step that ran last, "other" for input steps

vars == <<variant, contents, hasChanges, json, nodes, graphGen, selectedNode, editing,
          editedText, editedFields, editedSingleValue, pending, started, lastCall, inOrder,
          pushed, last>>

stores == <<contents, hasChanges, json, nodes, graphGen>>
buffers == <<editedText, editedFields, editedSingleValue>>
history == <<started, lastCall, inOrder, pushed>>

Init ==
    /\ variant \in {"fields", "text"}
    /\ \E doc \in Docs :
         /\ json = Stringify(doc)
         /\ nodes = BuildNodes(Stringify(doc), 0)
         /\ contents \in {Stringify(doc)} \cup BrokenTexts
    /\ hasChanges = FALSE
    /\ graphGen = 0
    /\ selectedNode = NoNode
    /\ editing = FALSE
    /\ editedText = <<>>
    /\ editedFields = EmptyFn
    /\ editedSingleValue = NoText
    /\ pending = <<>>
    /\ started = 0
    /\ lastCall = [path |-> <<>>, value |-> Undefined, ok |-> FALSE, fits |-> FALSE,
                   overlapped |-> FALSE]
    /\ inOrder = TRUE
    /\ pushed = FALSE
    /\ last = "other"

\* The effect of lines 43-49 and 289-293, and the resets that end handleSave
\* and make up handleCancel.
ResetEditState ==
    /\ editing' = FALSE
    /\ editedText' = <<>>
    /\ editedFields' = EmptyFn
    /\ editedSingleValue' = NoText

\* The user picks a node of the graph (with the modal in display mode): the
\* selection changes and the effect runs.
SelectNode ==
    /\ ~editing
    /\ \E i \in 1..Len(nodes) :
         /\ nodes[i] # selectedNode
         /\ selectedNode' = nodes[i]
    /\ ResetEditState
    /\ last' = "other"
    /\ UNCHANGED <<variant, stores, pending, history>>

\* fields[r.key] = String(r.value ?? "") for every keyed scalar row.
SeedFields(rows) ==
    LET obj == RowsObject(rows) IN [k \in DOMAIN obj |-> SeedText(obj[k])]

handleEdit ==
    /\ ~editing
    /\ LET rows == selectedNode.text IN
         IF variant = "text"
         THEN /\ editedText' = normalizeNodeData(rows)
              /\ UNCHANGED <<editedFields, editedSingleValue>>
         ELSE IF Len(rows) = 1 /\ rows[1].key = <<>>
              THEN /\ editedSingleValue' = SeedText(rows[1].value)
                   /\ UNCHANGED <<editedText, editedFields>>
              ELSE /\ editedFields' = SeedFields(rows)
                   /\ UNCHANGED <<editedText, editedSingleValue>>
    /\ editing' = TRUE
    /\ last' = "edit"
    /\ UNCHANGED <<variant, stores, selectedNode, pending, history>>

\* Mutant: the per-field build resets only what the free-text build resets.
handleCancelKeepsFields ==
    /\ editing
    /\ editing' = FALSE
    /\ editedText' = <<>>
    /\ last' = "cancel"
    /\ UNCHANGED <<variant, stores, selectedNode, editedFields, editedSingleValue, pending,
                   history>>

handleCancel ==
    /\ editing
    /\ ResetEditState
    /\ last' = "cancel"
    /\ UNCHANGED <<variant, stores, selectedNode, pending, history>>

\* onChange of the text area (free-text build).
TypeText ==
    /\ editing /\ variant = "text"
    /\ \E t \in Typed : editedText' = t /\ t # editedText
    /\ last' = "other"
    /\ UNCHANGED <<variant, stores, selectedNode, editing, editedFields, editedSingleValue,
                   pending, history>>

\* onChange of one field's input (per-field build).
TypeField ==
    /\ editing /\ variant = "fields" /\ editedSingleValue = NoText
    /\ \E k \in DOMAIN editedFields : \E t \in TypedField :
         /\ t # editedFields[k]
         /\ editedFields' = [editedFields EXCEPT ![k] = t]
    /\ last' = "other"
    /\ UNCHANGED <<variant, stores, selectedNode, editing, editedText, editedSingleValue,
                   pending, history>>

\* onChange of the lone input (per-field build, single keyless row).
TypeSingle ==
    /\ editing /\ variant = "fields" /\ editedSingleValue # NoText
    /\ \E t \in TypedField : editedSingleValue' = t /\ t # editedSingleValue
    /\ last' = "other"
    /\ UNCHANGED <<variant, stores, selectedNode, editing, editedText, editedFields,
                   pending, history>>

(***************************************************************************)
(* handleSave.                                                             *)
(***************************************************************************)
\* "Determine new value from edited inputs" (lines 108-127 and 338-345).
NewValue ==
    IF variant = "text" THEN ParseOrString(editedText)
    ELSE IF editedSingleValue # NoText THEN ParseOrString(editedSingleValue)
    ELSE Obj([k \in DOMAIN editedFields |-> ParseOrString(editedFields[k])])

\* The synchronous part of the try block up to JSON.stringify: the new text of
\* the document and the value given to setAtPath, or threw.
Patch(current, path, newValue) ==
    LET parsed == JsonParse(current) IN
    IF parsed = Thrown THEN [threw |-> TRUE, text |-> <<>>, value |-> Undefined]
    ELSE LET existingValue == getAtPath(parsed, path)
             merged == MergePreserved(existingValue, newValue)
             updated == setAtPath(parsed, path, merged)
         IN  IF updated = Thrown THEN [threw |-> TRUE, text |-> <<>>, value |-> Undefined]
             ELSE [threw |-> FALSE, text |-> Stringify(updated), value |-> merged]

\* useFile.setContents({contents, hasChanges}) when the store takes the write.
setContents(text, flag) ==
    /\ contents' = text
    /\ hasChanges' = flag

\* useJson.setJson(text): the text is stored and the graph is rebuilt from it.
setJson(text) ==
    /\ json' = text
    /\ graphGen' = graphGen + 1
    /\ nodes' = BuildNodes(text, graphGen + 1)

\* if (!nodeData) return
handleSaveNoNode ==
    /\ editing
    /\ selectedNode = NoNode
    /\ last' = "other"
    /\ UNCHANGED <<variant, stores, selectedNode, editing, buffers, pending, history>>

\* Mutant: the catch writes the text it failed to patch back as a change.
handleSaveThrewWrites ==
    /\ editing
    /\ selectedNode # NoNode
    /\ Patch(contents, selectedNode.path, NewValue).threw
    /\ setContents(contents, TRUE)
    /\ last' = "saveThrew"
    /\ UNCHANGED <<variant, json, nodes, graphGen, selectedNode, editing, buffers, pending,
                   history>>

\* The try block throws before setContents is reached: the catch only logs.
handleSaveThrew ==
    /\ editing
    /\ selectedNode # NoNode
    /\ Patch(contents, selectedNode.path, NewValue).threw
    /\ last' = "saveThrew"
    /\ UNCHANGED <<variant, stores, selectedNode, editing, buffers, pending, history>>

\* Every container along path exists in doc and is of the kind the next
\* segment addresses: a key in an object, an index in an array.
PathFits(doc, path) ==
    \A n \in 0..(Len(path) - 1) :
        LET c == getAtPath(doc, SubSeq(path, 1, n)) IN
        \/ Tag(c) = "obj" /\ path[n + 1][1] = "k"
        \/ Tag(c) = "arr" /\ path[n + 1][1] = "i"

\* Whether every input the new value is built from is valid JSON text.
InputsValid ==
    IF variant = "text" THEN JsonParse(editedText) # Thrown
    ELSE IF editedSingleValue # NoText THEN JsonParse(editedSingleValue) # Thrown
    ELSE \A k \in DOMAIN editedFields : JsonParse(editedFields[k]) # Thrown

\* Mutant: setJson is called without awaiting setContents.
SaveCallEager(limit, oks) ==
    /\ editing
    /\ selectedNode # NoNode
    /\ started < limit
    /\ LET p == Patch(contents, selectedNode.path, NewValue) IN
         /\ ~p.threw
         /\ \E ok \in oks :
              /\ pending' = Append(pending, [text |-> p.text, hasChanges |-> TRUE,
                                             path |-> selectedNode.path, ok |-> ok,
                                             valid |-> InputsValid])
              /\ lastCall' = [path |-> selectedNode.path, value |-> p.value, ok |-> ok,
                               fits |-> PathFits(JsonParse(contents), selectedNode.path),
                               overlapped |-> pending # <<>>]
              /\ IF ok THEN setContents(p.text, TRUE) ELSE UNCHANGED <<contents, hasChanges>>
         /\ setJson(p.text)
    /\ started' = started + 1
    /\ last' = "saveCall"
    /\ UNCHANGED <<variant, selectedNode, editing, buffers, inOrder, pushed>>

\* Mutant: setContents is given the text that was read instead of the new text.
SaveCallWritesCurrent(limit, oks) ==
    /\ editing
    /\ selectedNode # NoNode
    /\ started < limit
    /\ LET p == Patch(contents, selectedNode.path, NewValue) IN
         /\ ~p.threw
         /\ \E ok \in oks :
              /\ pending' = Append(pending, [text |-> p.text, hasChanges |-> TRUE,
                                             path |-> selectedNode.path, ok |-> ok,
                                             valid |-> InputsValid])
              /\ lastCall' = [path |-> selectedNode.path, value |-> p.value, ok |-> ok,
                               fits |-> PathFits(JsonParse(contents), selectedNode.path),
                               overlapped |-> pending # <<>>]
              /\ IF ok THEN setContents(contents, TRUE) ELSE UNCHANGED <<contents, hasChanges>>
    /\ started' = started + 1
    /\ last' = "saveCall"
    /\ UNCHANGED <<variant, json, nodes, graphGen, selectedNode, editing, buffers, inOrder,
                   pushed>>

\* The try block reaches `await setContents(...)`: the store either takes the
\* write and will resolve (ok), or fails and will reject.  limit bounds the
\* saves of a run and oks the outcomes the store may have.
SaveCall(limit, oks) ==
    /\ editing
    /\ selectedNode # NoNode
    /\ started < limit
    /\ LET p == Patch(contents, selectedNode.path, NewValue) IN
         /\ ~p.threw
         /\ \E ok \in oks :
              /\ pending' = Append(pending, [text |-> p.text, hasChanges |-> TRUE,
                                             path |-> selectedNode.path, ok |-> ok,
                                             valid |-> InputsValid])
              /\ lastCall' = [path |-> selectedNode.path, value |-> p.value, ok |-> ok,
                               fits |-> PathFits(JsonParse(contents), selectedNode.path),
                               overlapped |-> pending # <<>>]
              /\ IF ok THEN setContents(p.text, TRUE) ELSE UNCHANGED <<contents, hasChanges>>
    /\ started' = started + 1
    /\ last' = "saveCall"
    /\ UNCHANGED <<variant, json, nodes, graphGen, selectedNode, editing, buffers, inOrder,
                   pushed>>

handleSaveCall == SaveCall(MaxSaves, BOOLEAN)

\* pending without its i-th element.
Without(q, i) == [j \in 1..(Len(q) - 1) |-> IF j < i THEN q[j] ELSE q[j + 1]]

\* The rest of the try block after the await of a save resolved.
Resume(save) ==
    /\ setJson(save.text)
    /\ LET target == FindTarget(nodes', save.path) IN
         selectedNode' = IF target # NoNode THEN target ELSE selectedNode
    /\ ResetEditState
    /\ UNCHANGED <<contents, hasChanges>>

handleSaveResumed ==
    /\ \E i \in 1..Len(pending) :
         /\ pending[i].ok
         /\ pending' = Without(pending, i)
         /\ inOrder' = (inOrder /\ i = 1)
         /\ Resume(pending[i])
    /\ pushed' = TRUE
    /\ last' = "saveResumed"
    /\ UNCHANGED <<variant, started, lastCall>>

\* The await of a save rejected: the catch only logs.
handleSaveRejected ==
    /\ \E i \in 1..Len(pending) :
         /\ ~pending[i].ok
         /\ pending' = Without(pending, i)
         /\ inOrder' = (inOrder /\ i = 1)
    /\ last' = "saveRejected"
    /\ UNCHANGED <<variant, stores, selectedNode, editing, buffers, started, lastCall, pushed>>

Next ==
    \/ SelectNode
    \/ handleEdit
    \/ handleCancel
    \/ TypeText
    \/ TypeField
    \/ TypeSingle
    \/ handleSaveNoNode
    \/ handleSaveThrew
    \/ handleSaveCall
    \/ handleSaveResumed
    \/ handleSaveRejected

Spec == Init /\ [][Next]_vars

(***************************************************************************)
(* Rapid repeated Save clicks: the file-content store holds the text the   *)
(* graph was built from, setContents never fails, and the user neither     *)
(* cancels nor finds the document broken.                                  *)
(***************************************************************************)
InitRace ==
    /\ Init
    /\ contents = json

raceSaveCall == SaveCall(MaxRaceSaves, {TRUE})

NextRace ==
    \/ SelectNode
    \/ handleEdit
    \/ TypeText
    \/ TypeField
    \/ TypeSingle
    \/ raceSaveCall
    \/ handleSaveResumed

SpecRace == InitRace /\ [][NextRace]_vars

(***************************************************************************)
(* Vocabulary of the properties.                                           *)
(***************************************************************************)
BuffersEmpty == editedText = <<>> /\ editedFields = EmptyFn /\ editedSingleValue = NoText

\* The save that reached setContents last, while it is the newest one pending.
Handed == pending[Len(pending)]

HasKey(v, k) == Tag(v) = "obj" /\ k \in DOMAIN v[2]

IsPrefix(p, q) == Len(p) <= Len(q) /\ \A i \in 1..Len(p) : p[i] = q[i]

\* The paths of the values inside v, each prefixed by path.
RECURSIVE AllPaths(_, _)
AllPaths(v, path) ==
    {path} \cup
    (CASE Tag(v) = "obj" ->
            UNION {AllPaths(v[2][k], Append(path, SegK(k))) : k \in DOMAIN v[2]}
       [] Tag(v) = "arr" ->
            UNION {AllPaths(v[2][i], Append(path, SegI(i - 1))) : i \in 1..Len(v[2])}
       [] OTHER -> {})

\* The text of the input(s) is not JSON (per-field build: of some field).
SomeInputInvalid ==
    IF variant = "text" THEN JsonParse(editedText) = Thrown
    ELSE IF editedSingleValue # NoText THEN JsonParse(editedSingleValue) = Thrown
    ELSE \E k \in DOMAIN editedFields : JsonParse(editedFields[k]) = Thrown

\* saved, the value at the node's path of the document handed to setContents,
\* holds every input that is not JSON as the very string that was entered.
StoredVerbatim(saved) ==
    IF variant = "text" THEN saved = Str(editedText)
    ELSE IF editedSingleValue # NoText THEN saved = Str(editedSingleValue)
    ELSE \A k \in DOMAIN editedFields :
            JsonParse(editedFields[k]) = Thrown =>
                HasKey(saved, k) /\ saved[2][k] = Str(editedFields[k])

(***************************************************************************)
(* C1.  A save that fails inside its try block leaves the component in     *)
(* display mode with the edit buffers back at their initial values.        *)
(***************************************************************************)
C1_FailedSaveExitsEditMode ==
    last \in {"saveThrew", "saveRejected"} => (~editing /\ BuffersEmpty)

(***************************************************************************)
(* C2.  On a save that reaches setContents, when the prior value at the    *)
(* node's path and the new value are both non-null objects, each of the    *)
(* keys details and nutrients that the prior value has (whatever its       *)
(* value) and the new value omits is in the saved value at the path, with  *)
(* the prior value.                                                        *)
(***************************************************************************)
C2_Carried ==
    LET prior == getAtPath(JsonParse(contents), selectedNode.path)
        saved == getAtPath(JsonParse(Handed.text'), selectedNode.path)
    IN  (IsObjectType(prior) /\ IsObjectType(NewValue)) =>
            \A k \in {Details, Nutrients} :
                (HasKey(prior, k) /\ ~HasKey(NewValue, k)) =>
                    (HasKey(saved, k) /\ saved[2][k] = prior[2][k])

C2_PriorDetailsAndNutrientsKept ==
    [][(last' = "saveCall" /\ Handed.ok') => C2_Carried]_vars

(***************************************************************************)
(* C3.  A save of text that is not JSON, made while the current document   *)
(* parses, stores the text as a string at the node's path.                 *)
(***************************************************************************)
C3_Stored ==
    StoredVerbatim(getAtPath(JsonParse(Handed.text'), selectedNode.path))

\* As claimed: every Save click under the precondition stores the string.
C3_InvalidTextStoredVerbatim ==
    [][(last' \in {"saveCall", "saveThrew"} /\ SomeInputInvalid
          /\ JsonParse(contents) # Thrown)
        => (last' = "saveCall" /\ C3_Stored)]_vars

\* C3 as amended: ... provided the containers along the node's path exist in
\* the current document, each of the kind its segment addresses.
C3_InvalidTextStoredVerbatimWhenPathFits ==
    [][(last' \in {"saveCall", "saveThrew"} /\ SomeInputInvalid
          /\ JsonParse(contents) # Thrown
          /\ PathFits(JsonParse(contents), selectedNode.path))
        => (last' = "saveCall" /\ C3_Stored)]_vars

C3_Witness ==
    /\ last = "saveCall"
    /\ Tag(lastCall.value) = "str"
    /\ JsonParse(lastCall.value[2]) = Thrown
    /\ lastCall.path # <<>>

(***************************************************************************)
(* C4.  A save of valid JSON text hands setContents a document that has    *)
(* the parsed new value at the node's path, and when the save completes    *)
(* the selected node is a node of the refreshed graph with that path.      *)
(***************************************************************************)
C4_HasNewValue ==
    getAtPath(JsonParse(Handed.text'), selectedNode.path) = NewValue

C4_Reselected(save) ==
    /\ \E i \in 1..Len(nodes') : nodes'[i] = selectedNode'
    /\ selectedNode'.path = save.path

\* The save of pending that the step settles.
C4_Settles(i) == i \in 1..Len(pending) /\ pending' = Without(pending, i)

\* As claimed.
C4_ValueSavedAndNodeReselected ==
    [][/\ (last' = "saveCall" /\ InputsValid /\ Handed.ok') => C4_HasNewValue
       /\ last' = "saveResumed" =>
            \A i \in 1..Len(pending) :
                (C4_Settles(i) /\ json' = pending[i].text /\ pending[i].valid)
                    => C4_Reselected(pending[i])]_vars

\* C4 as amended: the value at the path is the new value extended by the
\* carried keys (given the path fits the current document), and the node is
\* re-selected when the refreshed graph has a node with that path; otherwise
\* the selection is left as it was.
C4_HasMergedValue ==
    getAtPath(JsonParse(Handed.text'), selectedNode.path)
        = MergePreserved(getAtPath(JsonParse(contents), selectedNode.path), NewValue)

C4_ReselectedIfPresent(save) ==
    IF \E i \in 1..Len(nodes') : nodes'[i].path = save.path
    THEN C4_Reselected(save) /\ selectedNode'.gen = graphGen'
    ELSE selectedNode' = selectedNode

C4_MergedValueSavedAndNodeReselectedIfPresent ==
    [][/\ (last' = "saveCall" /\ InputsValid
             /\ PathFits(JsonParse(contents), selectedNode.path)) => C4_HasMergedValue
       /\ last' = "saveResumed" =>
            \A i \in 1..Len(pending) :
                (C4_Settles(i) /\ json' = pending[i].text)
                    => C4_ReselectedIfPresent(pending[i])]_vars

\* A completed save whose node is in the refreshed graph and re-selected.
C4_Witness ==
    /\ last = "saveResumed"
    /\ selectedNode.gen = graphGen
    /\ graphGen > 0
    /\ selectedNode.path # <<>>

\* A completed save whose node is gone from the refreshed graph.
C4_StaleWitness ==
    /\ last = "saveResumed"
    /\ selectedNode # NoNode
    /\ selectedNode.gen < graphGen

(***************************************************************************)
(* C5.  Cancel returns the component to display mode with every edit       *)
(* buffer cleared and leaves the file-content store, the JSON store and    *)
(* the selected node as they were.                                         *)
(***************************************************************************)
C5_CancelDiscardsOnlyLocalState ==
    [][(editing /\ last' = "cancel") =>
          /\ ~editing' /\ BuffersEmpty'
          /\ UNCHANGED <<contents, hasChanges, json, nodes, graphGen, selectedNode>>]_vars

\* A cancel of an edit session in which a save is still awaited.
C5_Witness == last = "cancel" /\ selectedNode # NoNode /\ pending # <<>>

(***************************************************************************)
(* C6.  Within a save, setContents is called first, with the re-serialised *)
(* document and hasChanges = true; setJson is called only when that call   *)
(* has completed, with the same text, and the re-selection and the exit    *)
(* from edit mode come with it; when setContents fails, setJson is not     *)
(* called and the selection is not changed.                                *)
(***************************************************************************)
C6_SaveStepsInOrder ==
    [][/\ last' = "saveCall" =>
            /\ pending' = Append(pending, Handed')
            /\ Handed.hasChanges'
            /\ JsonParse(Handed.text')
                 = setAtPath(JsonParse(contents), selectedNode.path,
                             MergePreserved(getAtPath(JsonParse(contents), selectedNode.path),
                                            NewValue))
            /\ IF Handed.ok' THEN contents' = Handed.text' /\ hasChanges'
                             ELSE UNCHANGED <<contents, hasChanges>>
            /\ UNCHANGED <<json, nodes, graphGen, selectedNode, editing, buffers>>
       /\ (json' # json \/ nodes' # nodes \/ graphGen' # graphGen) =>
            \E i \in 1..Len(pending) :
                /\ pending[i].ok
                /\ pending' = Without(pending, i)
                /\ json' = pending[i].text
                /\ ~editing'
       /\ last' = "saveRejected" =>
            UNCHANGED <<contents, json, nodes, graphGen, selectedNode, editing, buffers>>]_vars

\* A save that went through both store calls.
C6_Witness == last = "saveResumed" /\ pushed /\ json = contents /\ hasChanges

(***************************************************************************)
(* C7.  A Save click whose try block throws while parsing the current      *)
(* document or patching it calls neither setContents nor setJson and       *)
(* leaves both stores and the selected node as they were.                  *)
(***************************************************************************)
C7_ThrownSaveKeepsDocument ==
    [][(/\ last' \in {"saveCall", "saveThrew"}
        /\ editing /\ selectedNode # NoNode
        /\ Patch(contents, selectedNode.path, NewValue).threw)
        => UNCHANGED <<contents, hasChanges, json, nodes, graphGen, selectedNode,
                       pending>>]_vars

\* A Save click where the document parsed and the patch threw.
C7_Witness == last = "saveThrew" /\ JsonParse(contents) # Thrown

(***************************************************************************)
(* C8.  Edit followed at once by Save, on a node of the document the       *)
(* file-content store holds, hands setContents a document of the same      *)
(* value.                                                                  *)
(***************************************************************************)
C8_EditThenSaveKeepsDocument ==
    [][(last = "edit" /\ last' = "saveCall" /\ contents = json /\ Handed.ok')
        => JsonParse(Handed.text') = JsonParse(contents)]_vars

(***************************************************************************)
(* C9.  A save at path P changes the document only at P: the value at      *)
(* every path of the old document that is neither P, nor a prefix of P,    *)
(* nor an extension of P is unchanged, and every container along P keeps   *)
(* its kind and its other members.                                         *)
(***************************************************************************)
C9_OtherMembersKept(c, d, seg) ==
    /\ Tag(d) = Tag(c)
    /\ Tag(c) = "obj" =>
         \A k \in DOMAIN c[2] : k = PropKey(seg) \/ (HasKey(d, k) /\ d[2][k] = c[2][k])
    /\ Tag(c) = "arr" =>
         \A j \in 1..Len(c[2]) :
             seg = SegI(j - 1) \/ (j <= Len(d[2]) /\ d[2][j] = c[2][j])

C9_OnlyPathChanged(pre, post, path) ==
    /\ \A q \in AllPaths(pre, <<>>) :
         (~IsPrefix(q, path) /\ ~IsPrefix(path, q)) => getAtPath(post, q) = getAtPath(pre, q)
    /\ \A n \in 0..(Len(path) - 1) :
         LET c == getAtPath(pre, SubSeq(path, 1, n)) IN
         IsContainer(c) =>
             C9_OtherMembersKept(c, getAtPath(post, SubSeq(path, 1, n)), path[n + 1])

C9_SaveChangesOnlyItsPath ==
    [][last' = "saveCall" =>
          C9_OnlyPathChanged(JsonParse(contents), JsonParse(Handed.text'),
                             selectedNode.path)]_vars

\* A taken save of an array element below an object that has other members.
C9_Witness == last = "saveCall" /\ lastCall.ok /\ lastCall.fits /\ Len(lastCall.path) = 2

(***************************************************************************)
(* C10.  Once every started save has completed, the text last given to the *)
(* JSON store is the text of the file-content store and holds the edit of  *)
(* the save started last.                                                  *)
(***************************************************************************)
C10_HoldsLastEdit ==
    getAtPath(JsonParse(contents), lastCall.path) = lastCall.value

\* As claimed.
C10_StoresAgreeAfterAllSaves ==
    (pending = <<>> /\ started > 0) => (json = contents /\ C10_HoldsLastEdit)

\* C10 as amended: ... provided a save resumed and the awaits settled in the
\* order the saves were started; the edit of the save started last is held
\* when the store took it and its path fitted the document it patched.
C10_StoresAgreeWhenSettledInOrder ==
    (pending = <<>> /\ pushed /\ inOrder) =>
        (json = contents /\ ((lastCall.ok /\ lastCall.fits) => C10_HoldsLastEdit))

\* Two overlapping saves, both completed, oldest first.
C10_Witness == pending = <<>> /\ pushed /\ inOrder /\ lastCall.overlapped /\ lastCall.ok

====
